---- MODULE Spec2Model ----
(***************************************************************************)
(* Ticket change detection (scripts/zendesk_monitor.py) and SLA            *)
(* evaluation (scripts/zendesk_server.py: the server-side resolver         *)
(* parse_sla_metrics and the dashboard-side classification getSLAStatus,   *)
(* renderSLABadge, calculateStats).                                        *)
(***************************************************************************)
EXTENDS Integers, Sequences, FiniteSets, TLC

\* ------------------------------------------------------------------------
\* Bounds
\* ------------------------------------------------------------------------
MaxBatch == 2
MaxEvents == 3
MaxNow == 5
MaxPages == 2

\* Python None / JS null, undefined
None == "None"

\* ------------------------------------------------------------------------
\* Ticket records as the monitor sees them
\* ------------------------------------------------------------------------
TicketIds == {1, 2}
DiffStatus == {"open", "pending"}
DiffPriority == {"normal", "urgent", None}
Tickets == [id : TicketIds, status : DiffStatus, priority : DiffPriority]

\* A Python dict: a sequence of <<key, value>> pairs in insertion order,
\* no key twice.
EmptyDict == << >>
DictKeys(d) == {d[i][1] : i \in DOMAIN d}
DictHas(d, k) == k \in DictKeys(d)
DictGet(d, k) == d[CHOOSE i \in DOMAIN d : d[i][1] = k][2]
DictPut(d, k, v) ==
  IF DictHas(d, k)
    THEN [i \in DOMAIN d |-> IF d[i][1] = k THEN <<k, v>> ELSE d[i]]
    ELSE Append(d, <<k, v>>)

\* {t['id']: t for t in current_tickets}
RECURSIVE BuildIds(_, _)
BuildIds(acc, ts) ==
  IF ts = << >> THEN acc
  ELSE BuildIds(DictPut(acc, Head(ts).id, Head(ts)), Tail(ts))

CurrentIds(current_tickets) == BuildIds(EmptyDict, current_tickets)

EmptyChanges ==
  [new_tickets |-> << >>, status_changes |-> << >>, priority_changes |-> << >>]

IsNewTicket(prev_tickets, ticket_id) == ~DictHas(prev_tickets, ticket_id)

StatusDiffers_mut(prev, ticket) ==
  prev.status # ticket.status /\ prev.priority = ticket.priority
StatusDiffers(prev, ticket) == prev.status # ticket.status

\* changes['new_tickets'].append(ticket)
ReportNew_mut(changes, ticket) ==
  [changes EXCEPT !.status_changes =
     Append(@, [ticket |-> ticket, old_status |-> None,
                new_status |-> ticket.status])]
ReportNew(changes, ticket) ==
  [changes EXCEPT !.new_tickets = Append(@, ticket)]

PriorityDiffers(prev, ticket) == prev.priority # ticket.priority

\* changes['status_changes'].append({...})
ReportStatus_mut(changes, prev, ticket) ==
  [changes EXCEPT !.status_changes =
     <<[ticket |-> ticket, old_status |-> prev.status,
        new_status |-> ticket.status]>> \o @]
ReportStatus(changes, prev, ticket) ==
  [changes EXCEPT !.status_changes =
     Append(@, [ticket |-> ticket, old_status |-> prev.status,
                new_status |-> ticket.status])]

\* one iteration of the loop body of detect_changes
ChangesStep(changes, prev_tickets, ticket_id, ticket) ==
  IF IsNewTicket(prev_tickets, ticket_id)
    THEN ReportNew(changes, ticket)
    ELSE
      LET prev == DictGet(prev_tickets, ticket_id)
          c1 == IF StatusDiffers(prev, ticket)
                  THEN ReportStatus(changes, prev, ticket)
                  ELSE changes
      IN  IF PriorityDiffers(prev, ticket)
            THEN [c1 EXCEPT !.priority_changes =
                    Append(@, [ticket |-> ticket,
                               old_priority |-> prev.priority,
                               new_priority |-> ticket.priority])]
            ELSE c1

\* for ticket_id, ticket in current_ids.items(): ...
RECURSIVE ChangesLoop(_, _, _)
ChangesLoop(changes, prev_tickets, items) ==
  IF items = << >> THEN changes
  ELSE ChangesLoop(ChangesStep(changes, prev_tickets, Head(items)[1], Head(items)[2]),
                   prev_tickets, Tail(items))

\* self.previous_tickets = current_ids
NextSnapshot_mut(prev_tickets, current_ids) ==
  IF prev_tickets = EmptyDict THEN current_ids ELSE prev_tickets
NextSnapshot_merge(prev_tickets, current_ids) ==
  BuildIds(prev_tickets, [i \in DOMAIN current_ids |-> current_ids[i][2]])
NextSnapshot(prev_tickets, current_ids) == current_ids

\* detect_changes: the Delta Record returned and the snapshot left behind
detect_changes(prev_tickets, current_tickets) ==
  LET current_ids == CurrentIds(current_tickets)
  IN  [changes |-> ChangesLoop(EmptyChanges, prev_tickets, current_ids),
       previous_tickets |-> NextSnapshot(prev_tickets, current_ids)]


\* ------------------------------------------------------------------------
\* SLA metric events and the server-side resolver (zendesk_server.py)
\* ------------------------------------------------------------------------
\* An optional value (a dict key that may be missing, a JS value that may be
\* undefined) is << >> when missing and <<v>> when present.
Missing == << >>
Some(v) == <<v>>
IsSome(o) == o # << >>
Val(o) == o[1]

TargetValue == 4

\* the 'sla' object of an apply_sla event
SlaPayloads ==
  { [target_in_seconds |-> Some(TargetValue), target |-> Missing],
    [target_in_seconds |-> Some(0 - TargetValue), target |-> Missing],
    [target_in_seconds |-> Missing, target |-> Missing] }

\* one metric event: its type, its 'sla' key and its 'time' key
Events ==
  { [type |-> "apply_sla", sla |-> Some(p), time |-> Some(0)] : p \in SlaPayloads }
  \cup { [type |-> "apply_sla", sla |-> Missing, time |-> Some(0)] }
  \cup { [type |-> "fulfill", sla |-> Missing, time |-> Some(0)] }
  \cup { [type |-> "breach", sla |-> Missing, time |-> t] : t \in {Missing, Some(0)} }

RECURSIVE SeqsUpTo(_, _)
SeqsUpTo(S, n) ==
  IF n = 0 THEN { << >> }
  ELSE LET shorter == SeqsUpTo(S, n - 1)
       IN  shorter \cup { Append(q, e) : q \in {r \in shorter : Len(r) = n - 1}, e \in S }

\* a per-metric-type stream: the key may be missing from metric_data
Streams(n) ==
  { [present |-> FALSE, events |-> << >>] }
  \cup { [present |-> TRUE, events |-> q] : q \in SeqsUpTo(Events, n) }

\* what get_ticket_sla_data returns: ok = FALSE stands for None
NoMetricData ==
  [ok |-> FALSE, resolution_time |-> [present |-> FALSE, events |-> << >>],
                 reply_time |-> [present |-> FALSE, events |-> << >>]]

\* at most MaxEvents events over the two streams
MetricData ==
  { NoMetricData }
  \cup { [ok |-> TRUE, resolution_time |-> a, reply_time |-> b] :
           <<a, b>> \in UNION { { <<x, y>> : y \in Streams(MaxEvents - Len(x.events)) } :
                                x \in Streams(MaxEvents) } }

\* if not metric_data: an empty dict and None are both falsy
Falsy(metric_data) ==
  \/ ~metric_data.ok
  \/ (~metric_data.resolution_time.present /\ ~metric_data.reply_time.present)

\* sla_data.get('target_in_seconds', sla_data.get('target', 0) * 60)
TargetSeconds(sla_data) ==
  IF IsSome(sla_data.target_in_seconds)
    THEN Val(sla_data.target_in_seconds)
    ELSE (IF IsSome(sla_data.target) THEN Val(sla_data.target) ELSE 0) * 60

\* event.get('type') == 'apply_sla' and 'sla' in event
IsApplySla(event) == event.type = "apply_sla" /\ IsSome(event.sla)

\* first loop of parse_sla_metrics: the first apply_sla event, or Missing
RECURSIVE FindApplySla(_)
FindApplySla(events) ==
  IF events = << >> THEN Missing
  ELSE IF IsApplySla(Head(events)) THEN Some(Head(events))
  ELSE FindApplySla(Tail(events))

\* second loop of parse_sla_metrics: fulfilled and breach_time after the scan
RECURSIVE ScanFlags(_, _)
ScanFlags(flags, events) ==
  IF events = << >> THEN flags
  ELSE LET e == Head(events)
           f == IF e.type = "fulfill" THEN [flags EXCEPT !.fulfilled = TRUE]
                ELSE IF e.type = "breach" THEN [flags EXCEPT !.breach_time = e.time]
                ELSE flags
       IN  ScanFlags(f, Tail(events))

\* ticket.sla_metrics: kind is "undefined" (key never set), "null" (the
\* resolver returned None) or "object"
NoSla(kind) ==
  [kind |-> kind, metric_type |-> None, target_seconds |-> 0,
   fulfilled |-> FALSE, breached |-> FALSE]

\* the body of the loop of parse_sla_metrics for one metric type:
\* Some(sla_info) when it returns, Missing when it continues
ParseStream(metric_type, stream) ==
  IF ~stream.present THEN Missing
  ELSE LET found == FindApplySla(stream.events)
       IN  IF ~IsSome(found) THEN Missing
           ELSE LET flags == ScanFlags([fulfilled |-> FALSE, breach_time |-> Missing],
                                       stream.events)
                IN  Some([kind |-> "object",
                          metric_type |-> metric_type,
                          target_seconds |-> TargetSeconds(Val(Val(found).sla)),
                          fulfilled |-> flags.fulfilled,
                          breached |-> IsSome(flags.breach_time)])

\* for metric_type in ['resolution_time', 'reply_time']
MetricOrder_mut == <<"reply_time", "resolution_time">>
MetricOrder == <<"resolution_time", "reply_time">>

StreamOf(metric_data, metric_type) ==
  IF metric_type = "resolution_time" THEN metric_data.resolution_time
  ELSE metric_data.reply_time

parse_sla_metrics(metric_data, ticket_status) ==
  IF Falsy(metric_data) THEN NoSla("null")
  ELSE LET first == ParseStream(MetricOrder[1], StreamOf(metric_data, MetricOrder[1]))
           second == ParseStream(MetricOrder[2], StreamOf(metric_data, MetricOrder[2]))
       IN  IF IsSome(first) THEN Val(first)
           ELSE IF IsSome(second) THEN Val(second)
           ELSE NoSla("null")

\* handle_api_request, enrichment of one ticket:
\* if sla_data: ticket['sla_metrics'] = parse_sla_metrics(...)
Enrich(raw, metric_data) ==
  IF Falsy(metric_data) THEN raw
  ELSE [raw EXCEPT !.sla_metrics = parse_sla_metrics(metric_data, raw.status)]

\* ------------------------------------------------------------------------
\* Dashboard-side classification (JS embedded in serve_dashboard)
\* ------------------------------------------------------------------------
SlaTicketStatus == {"open", "solved", "closed"}
Terminal == {"solved", "closed"}

\* tickets as the data source returns them, before enrichment
RawTickets ==
  [status : SlaTicketStatus, created_at : {Missing, Some(0)},
   sla_metrics : {NoSla("undefined")}]

\* if (slaMetrics): undefined and null are falsy, an object is truthy
Truthy(slaMetrics) == slaMetrics.kind = "object"

\* (now - created): NaN (Missing) when created_at is missing
Age(ticket, clock) ==
  IF IsSome(ticket.created_at) THEN Some(clock - Val(ticket.created_at)) ELSE Missing

\* remaining <= 0, false for NaN
RemainingLE0_mut(remaining) == IsSome(remaining) /\ Val(remaining) = 0
RemainingLE0(remaining) == IsSome(remaining) /\ Val(remaining) <= 0

\* (remaining / target) * 100 <= 25, false for NaN; target is not 0 here
AtRiskThreshold_mut(remaining, target) ==
  /\ IsSome(remaining)
  /\ IF target > 0 THEN Val(remaining) * 100 < 25 * target
     ELSE Val(remaining) * 100 > 25 * target
AtRiskThreshold(remaining, target) ==
  /\ IsSome(remaining)
  /\ IF target > 0 THEN Val(remaining) * 100 <= 25 * target
     ELSE Val(remaining) * 100 >= 25 * target

SlaResult(status, label, metricType) ==
  [status |-> status, label |-> label, metricType |-> metricType]

\* the solved/closed branch of getSLAStatus
TerminalStatus_mut(slaMetrics) ==
  IF Truthy(slaMetrics)
    THEN IF slaMetrics.breached /\ ~slaMetrics.fulfilled
           THEN SlaResult("breach", "Breached", slaMetrics.metric_type)
           ELSE SlaResult("ok", "Met", slaMetrics.metric_type)
    ELSE SlaResult("ok", "Resolved", "undefined")
TerminalStatus(slaMetrics) ==
  IF Truthy(slaMetrics)
    THEN IF slaMetrics.breached
           THEN SlaResult("breach", "Breached", slaMetrics.metric_type)
           ELSE SlaResult("ok", "Met", slaMetrics.metric_type)
    ELSE SlaResult("ok", "Resolved", "undefined")

\* the open branch of getSLAStatus, entered when target_seconds is truthy
OpenStatus(slaMetrics, age) ==
  LET target == slaMetrics.target_seconds
      remaining == IF IsSome(age) THEN Some(target - Val(age)) ELSE Missing
      metricLabel == IF slaMetrics.metric_type = "resolution_time"
                       THEN "Resolution" ELSE "Reply"
  IN  IF slaMetrics.breached \/ RemainingLE0(remaining)
        THEN SlaResult("breach", "Breached", metricLabel)
      ELSE IF AtRiskThreshold(remaining, target)
        THEN SlaResult("warning", "At Risk", metricLabel)
      ELSE SlaResult("ok", "On Track", metricLabel)

\* Fallback: No SLA data available
NoSlaStatus_mut == SlaResult("ok", "On Track", "undefined")
NoSlaStatus == SlaResult("none", "No SLA", "undefined")

getSLAStatus(ticket, clock) ==
  IF ticket.status \in Terminal THEN TerminalStatus(ticket.sla_metrics)
  ELSE IF Truthy(ticket.sla_metrics) /\ ticket.sla_metrics.target_seconds # 0
    THEN OpenStatus(ticket.sla_metrics, Age(ticket, clock))
  ELSE NoSlaStatus

\* sla.status === 'breach' && sla.metricType !== 'Resolution'
HideBadge_mut(sla) == FALSE
HideBadge(sla) == sla.status = "breach" /\ sla.metricType # "Resolution"

\* renderSLABadge: the empty string, or a span of class sla-<status>
renderSLABadge(ticket, clock) ==
  LET sla == getSLAStatus(ticket, clock)
  IN  IF HideBadge(sla) THEN [shown |-> FALSE, class |-> "", text |-> ""]
      ELSE [shown |-> TRUE, class |-> sla.status, text |-> sla.label]

\* the SLA part of the forEach body of calculateStats: the counter of
\* stats.sla that the ticket increments, or "none"
IsResolutionSLA_mut(ticket) == Truthy(ticket.sla_metrics)
IsResolutionSLA(ticket) ==
  Truthy(ticket.sla_metrics) /\ ticket.sla_metrics.metric_type = "resolution_time"

SlaCounter(ticket, clock) ==
  IF ticket.status \in Terminal THEN "none"
  ELSE LET sla == getSLAStatus(ticket, clock)
       IN  IF sla.status = "breach" /\ IsResolutionSLA(ticket) THEN "breached"
           ELSE IF sla.status = "warning" /\ IsResolutionSLA(ticket) THEN "atRisk"
           ELSE IF IsResolutionSLA(ticket) THEN "onTrack"
           ELSE "none"

\* stats.sla of calculateStats over the one-ticket batch
StatsSla(ticket, clock) ==
  LET c == SlaCounter(ticket, clock)
  IN  [breached |-> IF c = "breached" THEN 1 ELSE 0,
       atRisk |-> IF c = "atRisk" THEN 1 ELSE 0,
       onTrack |-> IF c = "onTrack" THEN 1 ELSE 0]

\* the filter of an SLA card: the ticket is listed by the card of the status
CardFilter(ticket, clock, status) ==
  /\ ticket.status \notin Terminal
  /\ Truthy(ticket.sla_metrics)
  /\ ticket.sla_metrics.metric_type = "resolution_time"
  /\ getSLAStatus(ticket, clock).status = status

NoView ==
  [sla |-> SlaResult("", "", ""),
   badge |-> [shown |-> FALSE, class |-> "", text |-> ""],
   stats_sla |-> [breached |-> 0, atRisk |-> 0, onTrack |-> 0]]

\* ------------------------------------------------------------------------
\* The dashboard's new-ticket detection (JS detectNewTickets)
\* ------------------------------------------------------------------------
\* the forEach of detectNewTickets: previousTickets is read, currentIds and
\* newTickets are written; a JS object with true values is its key set
RECURSIVE NewTicketsLoop(_, _, _)
NewTicketsLoop(acc, prevTickets, ts) ==
  IF ts = << >> THEN acc
  ELSE LET t == Head(ts)
           a == [currentIds |-> acc.currentIds \cup {t.id},
                 newTickets |-> IF t.id \notin prevTickets
                                  THEN Append(acc.newTickets, t)
                                  ELSE acc.newTickets]
       IN  NewTicketsLoop(a, prevTickets, Tail(ts))

\* previousTickets = currentIds
NextPrevious_mut(prevTickets, currentIds) == prevTickets \cup currentIds
NextPrevious(prevTickets, currentIds) == currentIds

\* detectNewTickets: the list returned and the previousTickets left behind
detectNewTickets(prevTickets, ts) ==
  LET r == NewTicketsLoop([currentIds |-> {}, newTickets |-> << >>], prevTickets, ts)
  IN  [newTickets |-> r.newTickets,
       previousTickets |-> NextPrevious(prevTickets, r.currentIds)]

\* ------------------------------------------------------------------------
\* The dashboard page's refresh controls (JS CONFIG, startAutoRefresh,
\* stopAutoRefresh, toggleAutoRefresh, changeInterval) and fetchData
\* ------------------------------------------------------------------------
\* the handles setInterval can return
TimerIds == {1, 2, 3}
\* how many fetchData calls may be awaiting their response at once
FetchSlots == {1, 2}

\* const CONFIG = { refreshInterval: 30000, autoRefresh: true }
InitialConfig == [refreshInterval |-> 30000, autoRefresh |-> TRUE]

\* the page's timer state: CONFIG, the refreshTimer variable (null = Missing)
\* and the interval timers the browser keeps running
NoTimers == [CONFIG |-> InitialConfig, refreshTimer |-> Missing, timers |-> {}]

\* setInterval returns a handle not in use
setInterval(timers) == CHOOSE id \in TimerIds \ timers : TRUE

\* stopAutoRefresh: if (refreshTimer) { clearInterval(refreshTimer); refreshTimer = null; }
stopAutoRefresh(tm) ==
  IF IsSome(tm.refreshTimer)
    THEN [tm EXCEPT !.timers = tm.timers \ {Val(tm.refreshTimer)},
                    !.refreshTimer = Missing]
    ELSE tm

\* startAutoRefresh: stopAutoRefresh(); if (CONFIG.autoRefresh) refreshTimer = setInterval(...)
startAutoRefresh_mut(tm) ==
  LET stopped == stopAutoRefresh(tm)
      id == setInterval(stopped.timers)
  IN  [stopped EXCEPT !.timers = stopped.timers \cup {id},
                      !.refreshTimer = Some(id)]
startAutoRefresh(tm) ==
  LET stopped == stopAutoRefresh(tm)
      id == setInterval(stopped.timers)
  IN  IF stopped.CONFIG.autoRefresh
        THEN [stopped EXCEPT !.timers = stopped.timers \cup {id},
                             !.refreshTimer = Some(id)]
        ELSE stopped

\* toggleAutoRefresh
toggleAutoRefresh(tm) ==
  LET flipped == [tm EXCEPT !.CONFIG.autoRefresh = ~tm.CONFIG.autoRefresh]
  IN  IF flipped.CONFIG.autoRefresh
        THEN startAutoRefresh(flipped)
        ELSE stopAutoRefresh(flipped)

\* what prompt() can return: null (cancelled), the empty string, a text that
\* is not a number, or a number
PromptResults ==
  { [kind |-> "null", seconds |-> 0],
    [kind |-> "empty", seconds |-> 0],
    [kind |-> "nan", seconds |-> 0] }
  \cup { [kind |-> "number", seconds |-> n] : n \in {0, 5, 10, 60} }

\* seconds && !isNaN(seconds) && seconds >= 10
IntervalAccepted(seconds) ==
  /\ seconds.kind \notin {"null", "empty"}
  /\ seconds.kind # "nan"
  /\ seconds.seconds >= 10

\* changeInterval
changeInterval(tm, seconds) ==
  IF IntervalAccepted(seconds)
    THEN startAutoRefresh(stopAutoRefresh(
           [tm EXCEPT !.CONFIG.refreshInterval = seconds.seconds * 1000]))
    ELSE tm

\* the batches /api/tickets can answer with; the page reads only the ids here
PageTickets == {t \in Tickets : t.status = "open" /\ t.priority = "normal"}
PageBatches == SeqsUpTo(PageTickets, Cardinality(TicketIds))
\* fetchTickets: the parsed body, or null after any error
FetchResults == {Missing} \cup {Some(b) : b \in PageBatches}

\* the calls still waiting, after call i was answered; a call that started
\* before i is marked when i's batch went on display
Answered(waiting, i, shown) ==
  [j \in 1..(Len(waiting) - 1) |->
     IF j < i
       THEN [waiting[j] EXCEPT !.stale = waiting[j].stale \/ shown]
       ELSE waiting[j + 1]]

\* ------------------------------------------------------------------------
\* The aggregators: ZendeskMonitor.get_stats, the page's calculateStats and
\* the wrapper's calculate_stats
\* ------------------------------------------------------------------------
AggStatus == {"new", "open", "pending", "hold", "solved", "closed"}
\* the data source sends "priority": null for a ticket without priority
AggPriority == {"low", "normal", "high", "urgent", None}
\* assignee_id: null (Missing) or an agent's id
AggAssignee == {Missing, Some(7)}
\* the batch handed to an aggregator; no SLA evaluation is attached
AggTickets ==
  [status : AggStatus, priority : AggPriority, assignee_id : AggAssignee,
   created_at : {Some(0)}, sla_metrics : {NoSla("undefined")}]

\* a dict or JS object as a function; f with key k set to v
SetKey(f, k, v) == [x \in DOMAIN f \cup {k} |-> IF x = k THEN v ELSE f[x]]
\* f.get(k, 0), (f[k] || 0)
GetOr0(f, k) == IF k \in DOMAIN f THEN f[k] ELSE 0

\* the counter keys both get_stats and calculateStats start with
CounterKeys ==
  {"urgent", "high", "normal", "low", "new", "open", "pending", "solved", "closed"}

\* stats = {'total': len(tickets), 'urgent': 0, ..., 'by_type': defaultdict(int)}
MonitorStats(ts) ==
  [raised |-> FALSE, total |-> Len(ts), counts |-> [k \in CounterKeys |-> 0],
   by_requester |-> << >>, by_type |-> << >>]

\* stats[key] += 1: a KeyError when stats has no such key
Increment(stats, key) ==
  IF key \in DOMAIN stats.counts
    THEN [stats EXCEPT !.counts[key] = @ + 1]
    ELSE [stats EXCEPT !.raised = TRUE]

\* the loop of get_stats; the key 'priority' is present (None when the
\* ticket has none), requester_id and type are not sent
RECURSIVE GetStatsLoop(_, _)
GetStatsLoop(stats, ts) ==
  IF ts = << >> THEN stats
  ELSE LET t == Head(ts)
           s1 == Increment(stats, t.priority)
           s2 == Increment(s1, t.status)
           s3 == [s2 EXCEPT !.by_requester = SetKey(@, None, GetOr0(@, None) + 1),
                            !.by_type = SetKey(@, "unknown", GetOr0(@, "unknown") + 1)]
       IN  IF s1.raised THEN s1
           ELSE IF s2.raised THEN s2
           ELSE GetStatsLoop(s3, Tail(ts))

get_stats(ts) == GetStatsLoop(MonitorStats(ts), ts)

\* const stats = { total: tickets.length, urgent: 0, ..., sla: {...} }
PageStats(ts) ==
  [total |-> Len(ts), counts |-> [k \in CounterKeys |-> 0],
   byAssignee |-> << >>, unassigned |-> 0,
   sla |-> [breached |-> 0, atRisk |-> 0, onTrack |-> 0]]

\* ticket.priority || 'none'
PagePriority(t) == IF t.priority = None THEN "none" ELSE t.priority

\* the per-assignee entry after counting the ticket
AssigneeEntry(byAssignee, t) ==
  LET e == IF Val(t.assignee_id) \in DOMAIN byAssignee
             THEN byAssignee[Val(t.assignee_id)]
             ELSE [total |-> 0, urgent |-> 0, open |-> 0]
  IN  [total |-> e.total + 1,
       urgent |-> e.urgent + (IF t.priority = "urgent" THEN 1 ELSE 0),
       open |-> e.open + (IF t.status \in {"new", "open", "pending"} THEN 1 ELSE 0)]

\* stats.sla with the ticket's counter incremented
CountSla(sla, t, clock) ==
  LET c == SlaCounter(t, clock)
  IN  [breached |-> sla.breached + (IF c = "breached" THEN 1 ELSE 0),
       atRisk |-> sla.atRisk + (IF c = "atRisk" THEN 1 ELSE 0),
       onTrack |-> sla.onTrack + (IF c = "onTrack" THEN 1 ELSE 0)]

\* the forEach of calculateStats
RECURSIVE CalculateStatsLoop(_, _, _)
CalculateStatsLoop(stats, ts, clock) ==
  IF ts = << >> THEN stats
  ELSE LET t == Head(ts)
           c1 == SetKey(stats.counts, PagePriority(t), GetOr0(stats.counts, PagePriority(t)) + 1)
           c2 == SetKey(c1, t.status, GetOr0(c1, t.status) + 1)
           s == [total |-> stats.total,
                 counts |-> c2,
                 byAssignee |-> IF IsSome(t.assignee_id)
                                  THEN SetKey(stats.byAssignee, Val(t.assignee_id),
                                              AssigneeEntry(stats.byAssignee, t))
                                  ELSE stats.byAssignee,
                 unassigned |-> IF IsSome(t.assignee_id)
                                  THEN stats.unassigned ELSE stats.unassigned + 1,
                 sla |-> CountSla(stats.sla, t, clock)]
       IN  CalculateStatsLoop(s, Tail(ts), clock)

calculateStats(ts, clock) == CalculateStatsLoop(PageStats(ts), ts, clock)

\* Math.round(x / y * 100) for x >= 0, y > 0
RoundPercent(x, y) == (200 * x + y) \div (2 * y)

\* const resolutionRate = stats.total > 0 ? Math.round(...) : 0
resolutionRate_mut(stats) ==
  IF stats.total > 0 THEN RoundPercent(stats.counts["solved"], stats.total) ELSE 100
resolutionRate(stats) ==
  IF stats.total > 0 THEN RoundPercent(stats.counts["solved"], stats.total) ELSE 0

\* the loop of calculate_stats
RECURSIVE WrapperLoop(_, _)
WrapperLoop(acc, ts) ==
  IF ts = << >> THEN acc
  ELSE LET t == Head(ts)
       IN  WrapperLoop(
             [by_status |-> SetKey(acc.by_status, t.status, GetOr0(acc.by_status, t.status) + 1),
              by_priority |-> SetKey(acc.by_priority, t.priority,
                                     GetOr0(acc.by_priority, t.priority) + 1)],
             Tail(ts))

calculate_stats(ts) ==
  LET r == WrapperLoop([by_status |-> << >>, by_priority |-> << >>], ts)
  IN  [total |-> Len(ts),
       by_status |-> r.by_status,
       by_priority |-> r.by_priority,
       urgent_count |-> GetOr0(r.by_priority, "urgent"),
       open_count |-> GetOr0(r.by_status, "new") + GetOr0(r.by_status, "open"),
       solved_count |-> GetOr0(r.by_status, "solved")]

\* ------------------------------------------------------------------------
\* The monitor's poll loop: fetch_recent_tickets, display_dashboard, run
\* ------------------------------------------------------------------------
RunStatus == {"open", "hold"}
RunPriority == {"normal", "urgent", None}
\* the tickets a page of search results may hold
RunTickets == [id : TicketIds, status : RunStatus, priority : RunPriority]
\* data.get('results', []) of one response: no ticket or one
PageResults == {<< >>} \cup {<<t>> : t \in RunTickets}
\* the two ways a request fails: status_code != 200, an exception
FetchErrors == {"Error: 500", "Connection error"}

\* what fetch_recent_tickets returns on a failure: return None, f"..."
FailedFetch_empty(tickets, error) == [tickets |-> Some(<< >>), error |-> error]
FailedFetch_mut(tickets, error) == [tickets |-> Some(tickets), error |-> error]
FailedFetch(tickets, error) == [tickets |-> Missing, error |-> error]
\* return tickets, None
CompleteFetch(tickets) == [tickets |-> Some(tickets), error |-> None]
\* nothing returned yet
NoFetch == [tickets |-> Missing, error |-> None]

\* the concatenation of the results of the requests that succeeded
RECURSIVE ConcatPages(_)
ConcatPages(ps) ==
  IF ps = << >> THEN << >>
  ELSE (IF Head(ps).ok THEN Head(ps).results ELSE << >>) \o ConcatPages(Tail(ps))

\* changes[...][:5]
First5(s) == SubSeq(s, 1, IF Len(s) < 5 THEN Len(s) ELSE 5)
\* x.upper() raises AttributeError when x is None
UpperRaises(x) == x = None

\* the alert sections of display_dashboard raise on a None priority or status
DisplayRaises(changes) ==
  \/ \E i \in DOMAIN First5(changes.new_tickets) :
        UpperRaises(changes.new_tickets[i].priority)
  \/ \E i \in DOMAIN First5(changes.status_changes) :
        \/ UpperRaises(changes.status_changes[i].old_status)
        \/ UpperRaises(changes.status_changes[i].new_status)
  \/ \E i \in DOMAIN First5(changes.priority_changes) :
        \/ UpperRaises(changes.priority_changes[i].old_priority)
        \/ UpperRaises(changes.priority_changes[i].new_priority)

\* display_dashboard(tickets, stats, changes, error): with an error only the
\* error is printed; otherwise the sections are printed from stats, changes
\* and tickets
display_dashboard(ts, changes, error) ==
  IF error # None THEN [raised |-> FALSE, tickets |-> ts, error |-> error]
  ELSE [raised |-> DisplayRaises(changes), tickets |-> ts, error |-> error]

\* self.display_dashboard([], {}, {}, error=error)
ErrorBatch_mut(accumulated) == accumulated
ErrorBatch(accumulated) == << >>

\* ------------------------------------------------------------------------
\* State
\* ------------------------------------------------------------------------
VARIABLES
  previous_tickets,  \* ZendeskMonitor.previous_tickets
  tickets,           \* the batch being accumulated for the next call
  changes,           \* Delta Record returned by the last detect_changes, or None
  batch,             \* argument of the last detect_changes call, or None
  old_tickets,       \* previous_tickets as it was before the last call, or None
  calls,             \* number of consecutive detect_changes calls with `batch`
  metric_data,       \* the metric events the data source holds for the ticket
  ticket,            \* the ticket of the /api/tickets response
  now,               \* the clock
  sla_pc,            \* "source", "served" (enriched by the server), "shown"
  view,              \* what the dashboard computed from the response
  consumer,          \* who polls: "monitor" (ZendeskMonitor) or "dashboard" (the page)
  gone,              \* ids that were in the snapshot once and had been dropped
                     \* from it before the last call
  previousTickets,   \* the dashboard's previousTickets, as its set of keys
  oldPreviousTickets,\* previousTickets as it was before the last call
  polled,            \* the batch passed to the last detectNewTickets, Missing
                     \* while the next one is arriving
  newTickets,        \* the list returned by the last detectNewTickets
  agg_tickets,       \* the batch handed to the aggregator
  agg_pc,            \* "idle", "collect" (batch arriving) or "done" (aggregated)
  agg,               \* what the consumer's aggregator returned
  run_pc,            \* where ZendeskMonitor.run stands
  pages,             \* the requests of this cycle's fetch, in order
  fetched,           \* tickets, error = self.fetch_recent_tickets(hours=24)
  stats,             \* stats = self.get_stats(tickets), Missing before
  presented,         \* the display_dashboard calls of this cycle
  had_failure,       \* an earlier cycle's fetch failed
  last_seen,         \* the tickets of the last batch that was diffed, by id
                     \* (a dict); Missing before the first diff
  prev_failed,       \* the fetch of the cycle before this one failed
  shown_before,      \* the SLA status the dashboard showed at the refresh before
  CONFIG,            \* the page's CONFIG: refreshInterval (ms), autoRefresh
  refreshTimer,      \* the page's refreshTimer: Missing (null) or Some(handle)
  timers,            \* the interval timers the browser keeps running
  inflight,          \* the fetchData calls awaiting their response, oldest first
  last_response      \* how the last answered fetchData call ended

monitor_vars == <<previous_tickets, tickets, changes, batch, old_tickets, calls>>
sla_vars == <<metric_data, ticket, now, sla_pc, view, shown_before>>
delta_vars == <<consumer, gone, previousTickets, oldPreviousTickets, polled, newTickets>>
vars == <<previous_tickets, tickets, changes, batch, old_tickets, calls,
          metric_data, ticket, now, sla_pc, view,
          consumer, gone, previousTickets, oldPreviousTickets, polled, newTickets,
          agg_tickets, agg_pc, agg,
          run_pc, pages, fetched, stats, presented, had_failure,
          last_seen, prev_failed,
          shown_before,
          CONFIG, refreshTimer, timers, inflight, last_response>>
page_vars == <<CONFIG, refreshTimer, timers, inflight, last_response>>
agg_vars == <<agg_tickets, agg_pc, agg>>
run_vars == <<run_pc, pages, fetched, stats, presented, had_failure,
              last_seen, prev_failed>>
non_delta_vars == <<sla_vars, agg_vars, run_vars, page_vars>>
non_sla_vars == <<monitor_vars, delta_vars, agg_vars, run_vars, page_vars>>
non_agg_vars == <<monitor_vars, sla_vars, delta_vars, run_vars, page_vars>>
non_run_vars == <<sla_vars, delta_vars, agg_vars, page_vars>>
non_page_vars == <<monitor_vars, sla_vars, agg_vars, run_vars>>

\* ZendeskMonitor.__init__
MonitorInit ==
  /\ previous_tickets = EmptyDict
  /\ tickets = << >>
  /\ changes = None
  /\ batch = None
  /\ old_tickets = None
  /\ calls = 0

\* no dashboard page is open
DashboardIdle ==
  /\ metric_data = NoMetricData
  /\ ticket = [status |-> "open", created_at |-> Missing,
               sla_metrics |-> NoSla("undefined")]
  /\ now = 0
  /\ sla_pc = "off"
  /\ view = NoView
  /\ shown_before = ""

\* let previousTickets = {}
DeltaInit ==
  /\ gone = {}
  /\ previousTickets = {}
  /\ oldPreviousTickets = {}
  /\ polled = Missing
  /\ newTickets = << >>

\* the page's script has not run
PageIdle ==
  /\ CONFIG = InitialConfig
  /\ refreshTimer = Missing
  /\ timers = {}
  /\ inflight = << >>
  /\ last_response = Missing

\* no aggregation has run
NoAgg == [stats |-> None, rate |-> 0]
AggIdle ==
  /\ agg_tickets = << >>
  /\ agg_pc = "idle"
  /\ agg = NoAgg

\* run has not been called
RunIdle ==
  /\ run_pc = "idle"
  /\ pages = << >>
  /\ fetched = NoFetch
  /\ stats = Missing
  /\ presented = << >>
  /\ had_failure = FALSE
  /\ last_seen = Missing
  /\ prev_failed = FALSE

\* one consumer polls the ticket window: a ZendeskMonitor or a dashboard page
Init ==
  /\ MonitorInit
  /\ DashboardIdle
  /\ DeltaInit
  /\ AggIdle
  /\ RunIdle
  /\ PageIdle
  /\ consumer \in {"monitor", "dashboard"}

\* gone, brought up to date with the monitor's last call
GoneNow == (gone \cup DictKeys(old_tickets)) \ {batch[i].id : i \in DOMAIN batch}
\* ... and with the dashboard's
GoneNowDashboard ==
  (gone \cup oldPreviousTickets) \ {Val(polled)[i].id : i \in DOMAIN Val(polled)}

\* tickets = [] : a new batch is started, the last Delta Record is discarded
NewBatch ==
  /\ calls > 0
  /\ tickets' = << >>
  /\ changes' = None
  /\ batch' = None
  /\ old_tickets' = None
  /\ calls' = 0
  /\ gone' = GoneNow
  /\ UNCHANGED <<previous_tickets, consumer, previousTickets, oldPreviousTickets,
                 polled, newTickets>>
  /\ UNCHANGED non_delta_vars

\* the refresh timer fires: fetchTickets starts on a new batch
NewPoll ==
  /\ IsSome(polled)
  /\ tickets' = << >>
  /\ polled' = Missing
  /\ newTickets' = << >>
  /\ gone' = GoneNowDashboard
  /\ oldPreviousTickets' = previousTickets
  /\ UNCHANGED <<previous_tickets, changes, batch, old_tickets, calls>>
  /\ UNCHANGED <<consumer, previousTickets>>
  /\ UNCHANGED non_delta_vars

\* tickets.extend(results): one more ticket arrives in the batch
ExtendTickets(t) ==
  /\ calls = 0
  /\ polled = Missing
  /\ Len(tickets) < MaxBatch
  /\ tickets' = Append(tickets, t)
  /\ UNCHANGED <<previous_tickets, changes, batch, old_tickets, calls>>
  /\ UNCHANGED delta_vars
  /\ UNCHANGED non_delta_vars

\* changes = self.detect_changes(tickets)
DetectChanges ==
  /\ consumer = "monitor"
  /\ calls = 0
  /\ LET r == detect_changes(previous_tickets, tickets)
     IN  /\ changes' = r.changes
         /\ previous_tickets' = r.previous_tickets
  /\ batch' = tickets
  /\ old_tickets' = previous_tickets
  /\ calls' = 1
  /\ UNCHANGED tickets
  /\ UNCHANGED delta_vars
  /\ UNCHANGED non_delta_vars

\* the same batch is passed again, no other call in between
DetectChangesAgain ==
  /\ consumer = "monitor"
  /\ calls = 1
  /\ LET r == detect_changes(previous_tickets, batch)
     IN  /\ changes' = r.changes
         /\ previous_tickets' = r.previous_tickets
  /\ old_tickets' = previous_tickets
  /\ calls' = 2
  /\ gone' = GoneNow
  /\ UNCHANGED <<tickets, batch>>
  /\ UNCHANGED <<consumer, previousTickets, oldPreviousTickets, polled, newTickets>>
  /\ UNCHANGED non_delta_vars

\* fetchData: const newTickets = detectNewTickets(tickets)
DetectNewTickets ==
  /\ consumer = "dashboard"
  /\ polled = Missing
  /\ LET r == detectNewTickets(previousTickets, tickets)
     IN  /\ newTickets' = r.newTickets
         /\ previousTickets' = r.previousTickets
  /\ oldPreviousTickets' = previousTickets
  /\ polled' = Some(tickets)
  /\ UNCHANGED <<previous_tickets, tickets, changes, batch, old_tickets, calls>>
  /\ UNCHANGED <<consumer, gone>>
  /\ UNCHANGED non_delta_vars

Next ==
  \/ NewBatch
  \/ \E t \in Tickets : ExtendTickets(t)
  \/ DetectChanges
  \/ DetectChangesAgain
  \/ DetectNewTickets
  \/ NewPoll

Spec == Init /\ [][Next]_vars

\* ------------------------------------------------------------------------
\* One ticket through the dashboard: the server enriches it with its SLA
\* evaluation, the page classifies and renders it, the clock advances and
\* the next refresh starts over.
\* ------------------------------------------------------------------------
InitSLA ==
  /\ MonitorInit
  /\ DeltaInit
  /\ AggIdle
  /\ RunIdle
  /\ PageIdle
  /\ consumer = "dashboard"
  /\ metric_data \in MetricData
  /\ ticket \in RawTickets
  /\ now = 0
  /\ sla_pc = "source"
  /\ view = NoView
  /\ shown_before = ""

\* handle_api_request: the enrichment loop body for the ticket
HandleApiRequest ==
  /\ sla_pc = "source"
  /\ ticket' = Enrich(ticket, metric_data)
  /\ sla_pc' = "served"
  /\ UNCHANGED <<metric_data, now, view, shown_before>>
  /\ UNCHANGED non_sla_vars

\* fetchData: calculateStats and renderDashboard over the response
FetchData ==
  /\ sla_pc = "served"
  /\ view' = [sla |-> getSLAStatus(ticket, now),
              badge |-> renderSLABadge(ticket, now),
              stats_sla |-> StatsSla(ticket, now)]
  /\ sla_pc' = "shown"
  /\ UNCHANGED <<metric_data, ticket, now, shown_before>>
  /\ UNCHANGED non_sla_vars

\* the refresh interval passes; the next response is built from scratch
Tick ==
  /\ sla_pc = "shown"
  /\ now < MaxNow
  /\ now' = now + 1
  /\ ticket' = [ticket EXCEPT !.sla_metrics = NoSla("undefined")]
  /\ view' = NoView
  /\ shown_before' = view.sla.status
  /\ sla_pc' = "source"
  /\ UNCHANGED metric_data
  /\ UNCHANGED non_sla_vars

NextSLA ==
  \/ HandleApiRequest
  \/ FetchData
  \/ Tick

SpecSLA == InitSLA /\ [][NextSLA]_vars

\* ------------------------------------------------------------------------
\* One consumer aggregates batch after batch: the monitor with get_stats,
\* the dashboard page with calculateStats and resolutionRate, a caller of
\* the wrapper with calculate_stats.
\* ------------------------------------------------------------------------
InitAgg ==
  /\ MonitorInit
  /\ DashboardIdle
  /\ DeltaInit
  /\ RunIdle
  /\ PageIdle
  /\ consumer \in {"monitor", "dashboard", "wrapper"}
  /\ agg_tickets = << >>
  /\ agg_pc = "collect"
  /\ agg = NoAgg

\* one more ticket arrives in the batch
AggExtend(t) ==
  /\ agg_pc = "collect"
  /\ Len(agg_tickets) < MaxBatch
  /\ agg_tickets' = Append(agg_tickets, t)
  /\ UNCHANGED <<agg_pc, agg>>
  /\ UNCHANGED non_agg_vars

\* stats = self.get_stats(tickets)
GetStats ==
  /\ agg_pc = "collect"
  /\ consumer = "monitor"
  /\ agg' = [stats |-> get_stats(agg_tickets), rate |-> 0]
  /\ agg_pc' = "done"
  /\ UNCHANGED agg_tickets
  /\ UNCHANGED non_agg_vars

\* const stats = calculateStats(tickets); renderDashboard(tickets, stats)
CalculateStats ==
  /\ agg_pc = "collect"
  /\ consumer = "dashboard"
  /\ LET st == calculateStats(agg_tickets, now)
     IN  agg' = [stats |-> st, rate |-> resolutionRate(st)]
  /\ agg_pc' = "done"
  /\ UNCHANGED agg_tickets
  /\ UNCHANGED non_agg_vars

\* calculate_stats(tickets)
CalculateStatsWrapper ==
  /\ agg_pc = "collect"
  /\ consumer = "wrapper"
  /\ agg' = [stats |-> calculate_stats(agg_tickets), rate |-> 0]
  /\ agg_pc' = "done"
  /\ UNCHANGED agg_tickets
  /\ UNCHANGED non_agg_vars

\* the next batch is started
AggNextBatch ==
  /\ agg_pc = "done"
  /\ agg_tickets' = << >>
  /\ agg' = NoAgg
  /\ agg_pc' = "collect"
  /\ UNCHANGED non_agg_vars

NextAgg ==
  \/ \E t \in AggTickets : AggExtend(t)
  \/ GetStats
  \/ CalculateStats
  \/ CalculateStatsWrapper
  \/ AggNextBatch

SpecAgg == InitAgg /\ [][NextAgg]_vars

\* ------------------------------------------------------------------------
\* ZendeskMonitor.run: cycle after cycle the batch is fetched page by page,
\* aggregated, diffed and displayed, or the error is displayed; then the
\* loop sleeps. Only KeyboardInterrupt is caught.
\* ------------------------------------------------------------------------
InitRun ==
  /\ previous_tickets = EmptyDict
  /\ tickets = << >>
  /\ changes = EmptyChanges
  /\ batch = << >>
  /\ old_tickets = EmptyDict
  /\ calls = 0
  /\ DashboardIdle
  /\ DeltaInit
  /\ consumer = "monitor"
  /\ AggIdle
  /\ PageIdle
  /\ run_pc = "fetch"
  /\ pages = << >>
  /\ fetched = NoFetch
  /\ stats = Missing
  /\ presented = << >>
  /\ had_failure = FALSE
  /\ last_seen = Missing
  /\ prev_failed = FALSE

\* this cycle's fetch ended with a failed request
Failed == pages # << >> /\ ~pages[Len(pages)].ok

\* requests.get answers 200: tickets.extend(results), then the next page or
\* return tickets, None
FetchPage(results, has_next) ==
  /\ run_pc = "fetch"
  /\ has_next => Len(pages) + 1 < MaxPages
  /\ tickets' = tickets \o results
  /\ pages' = Append(pages, [ok |-> TRUE, results |-> results])
  /\ IF has_next
       THEN /\ run_pc' = "fetch"
            /\ fetched' = fetched
       ELSE /\ run_pc' = "fetched"
            /\ fetched' = CompleteFetch(tickets')
  /\ UNCHANGED <<previous_tickets, changes, batch, old_tickets, calls>>
  /\ UNCHANGED <<stats, presented, had_failure, last_seen, prev_failed>>
  /\ UNCHANGED non_run_vars

\* status_code != 200 or an exception: return None, error
FetchFail(error) ==
  /\ run_pc = "fetch"
  /\ pages' = Append(pages, [ok |-> FALSE, results |-> << >>])
  /\ fetched' = FailedFetch(tickets, error)
  /\ run_pc' = "fetched"
  /\ UNCHANGED monitor_vars
  /\ UNCHANGED <<stats, presented, had_failure, last_seen, prev_failed>>
  /\ UNCHANGED non_run_vars

\* if tickets is not None: stats = self.get_stats(tickets)
RunGetStats ==
  /\ run_pc = "fetched"
  /\ IsSome(fetched.tickets)
  /\ LET st == get_stats(Val(fetched.tickets))
     IN  IF st.raised
           THEN /\ run_pc' = "crashed"
                /\ stats' = stats
           ELSE /\ run_pc' = "diff"
                /\ stats' = Some(st)
  /\ UNCHANGED monitor_vars
  /\ UNCHANGED <<pages, fetched, presented, had_failure, last_seen, prev_failed>>
  /\ UNCHANGED non_run_vars

\* changes = self.detect_changes(tickets)
RunDetectChanges ==
  /\ run_pc = "diff"
  /\ LET r == detect_changes(previous_tickets, Val(fetched.tickets))
     IN  /\ changes' = r.changes
         /\ previous_tickets' = r.previous_tickets
  /\ batch' = Val(fetched.tickets)
  /\ calls' = calls + 1
  /\ run_pc' = "display"
  /\ UNCHANGED <<tickets, old_tickets>>
  /\ UNCHANGED <<pages, fetched, stats, presented, had_failure, last_seen, prev_failed>>
  /\ UNCHANGED non_run_vars

\* self.display_dashboard(tickets, stats, changes)
RunDisplay ==
  /\ run_pc = "display"
  /\ LET d == display_dashboard(Val(fetched.tickets), changes, None)
     IN  IF d.raised
           THEN /\ run_pc' = "crashed"
                /\ presented' = presented
           ELSE /\ run_pc' = "sleep"
                /\ presented' = Append(presented, [tickets |-> d.tickets, error |-> d.error])
  /\ UNCHANGED monitor_vars
  /\ UNCHANGED <<pages, fetched, stats, had_failure, last_seen, prev_failed>>
  /\ UNCHANGED non_run_vars

\* else: self.display_dashboard([], {}, {}, error=error)
RunDisplayError ==
  /\ run_pc = "fetched"
  /\ ~IsSome(fetched.tickets)
  /\ LET d == display_dashboard(ErrorBatch(tickets), EmptyChanges, fetched.error)
     IN  presented' = Append(presented, [tickets |-> d.tickets, error |-> d.error])
  /\ run_pc' = "sleep"
  /\ UNCHANGED monitor_vars
  /\ UNCHANGED <<pages, fetched, stats, had_failure, last_seen, prev_failed>>
  /\ UNCHANGED non_run_vars

\* time.sleep(refresh_interval), then the next iteration starts its fetch
RunSleep ==
  /\ run_pc = "sleep"
  /\ run_pc' = "fetch"
  /\ tickets' = << >>
  /\ pages' = << >>
  /\ fetched' = NoFetch
  /\ stats' = Missing
  /\ presented' = << >>
  /\ changes' = EmptyChanges
  /\ batch' = << >>
  /\ calls' = 0
  /\ old_tickets' = previous_tickets
  /\ had_failure' = (had_failure \/ Failed)
  /\ last_seen' = (IF calls = 1
                     THEN Some(detect_changes(EmptyDict, batch).previous_tickets)
                     ELSE last_seen)
  /\ prev_failed' = Failed
  /\ UNCHANGED previous_tickets
  /\ UNCHANGED non_run_vars

\* except KeyboardInterrupt: the log is written, sys.exit(0)
KeyboardInterrupt ==
  /\ run_pc \in {"fetch", "fetched", "diff", "display", "sleep"}
  /\ run_pc' = "stopped"
  /\ UNCHANGED monitor_vars
  /\ UNCHANGED <<pages, fetched, stats, presented, had_failure, last_seen, prev_failed>>
  /\ UNCHANGED non_run_vars

\* the steps the loop takes by itself
NextRunLoop ==
  \/ \E results \in PageResults, has_next \in BOOLEAN : FetchPage(results, has_next)
  \/ \E error \in FetchErrors : FetchFail(error)
  \/ RunGetStats
  \/ RunDetectChanges
  \/ RunDisplay
  \/ RunDisplayError
  \/ RunSleep

NextRun ==
  \/ NextRunLoop
  \/ KeyboardInterrupt

SpecRun == InitRun /\ [][NextRun]_vars

\* every request returns (timeout=10) and every sleep ends
SpecRunFair == SpecRun /\ WF_vars(NextRunLoop)

\* ------------------------------------------------------------------------
\* The dashboard page (SpecPage): the script's last two statements have run,
\* fetchData(); startAutoRefresh();  and the user and the timer take turns
\* ------------------------------------------------------------------------
TimerState == [CONFIG |-> CONFIG, refreshTimer |-> refreshTimer, timers |-> timers]

\* the timer state becomes tm
SetTimerState(tm) ==
  /\ CONFIG' = tm.CONFIG
  /\ refreshTimer' = tm.refreshTimer
  /\ timers' = tm.timers

InitPage ==
  /\ MonitorInit
  /\ DashboardIdle
  /\ DeltaInit
  /\ AggIdle
  /\ RunIdle
  /\ consumer = "dashboard"
  /\ LET tm == startAutoRefresh(NoTimers)
     IN  /\ CONFIG = tm.CONFIG
         /\ refreshTimer = tm.refreshTimer
         /\ timers = tm.timers
  /\ inflight = << [by |-> "init", stale |-> FALSE] >>
  /\ last_response = Missing

\* fetchData is called: it awaits fetchTickets()
CallFetchData(by) ==
  /\ Len(inflight) < Cardinality(FetchSlots)
  /\ inflight' = Append(inflight, [by |-> by, stale |-> FALSE])
  /\ UNCHANGED <<CONFIG, refreshTimer, timers, last_response>>
  /\ UNCHANGED <<delta_vars, non_page_vars>>

\* an interval timer set by startAutoRefresh fires
TimerFires ==
  /\ timers # {}
  /\ CallFetchData("timer")

\* the 'Refresh Now' button
RefreshNow ==
  /\ consumer = "dashboard"
  /\ CallFetchData("manual")

\* fetchTickets of call i returns: fetchData goes on after its await
FetchReturns(i, result) ==
  /\ i \in DOMAIN inflight
  /\ IF IsSome(result)
       THEN LET r == detectNewTickets(previousTickets, Val(result))
            IN  /\ newTickets' = r.newTickets
                /\ previousTickets' = r.previousTickets
                /\ oldPreviousTickets' = previousTickets
                /\ polled' = result
       ELSE UNCHANGED <<newTickets, previousTickets, oldPreviousTickets, polled>>
  /\ inflight' = Answered(inflight, i, IsSome(result))
  /\ last_response' = Some([ok |-> IsSome(result), stale |-> inflight[i].stale])
  /\ UNCHANGED <<CONFIG, refreshTimer, timers, consumer, gone>>
  /\ UNCHANGED non_page_vars

\* the 'Pause/Resume Auto-Refresh' button
ToggleAutoRefresh ==
  /\ SetTimerState(toggleAutoRefresh(TimerState))
  /\ UNCHANGED <<inflight, last_response, delta_vars, non_page_vars>>

\* the 'Change Interval' button
ChangeInterval(seconds) ==
  /\ SetTimerState(changeInterval(TimerState, seconds))
  /\ UNCHANGED <<inflight, last_response, delta_vars, non_page_vars>>

NextPage ==
  \/ TimerFires
  \/ RefreshNow
  \/ \E i \in FetchSlots, result \in FetchResults : FetchReturns(i, result)
  \/ ToggleAutoRefresh
  \/ \E seconds \in PromptResults : ChangeInterval(seconds)

SpecPage == InitPage /\ [][NextPage]_vars

\* ------------------------------------------------------------------------
\* Two consumers (SpecTwo): a ZendeskMonitor and a dashboard page poll the
\* same ticket window, each in its own process, in any order
\* ------------------------------------------------------------------------
\* what the window can hold when a consumer fetches it
WindowTickets == {t \in Tickets : t.priority = "normal"}
\* (every ticket once, by ascending id)
WindowBatches ==
  {b \in SeqsUpTo(WindowTickets, Cardinality(TicketIds)) :
     \A i, j \in DOMAIN b : i < j => b[i].id < b[j].id}

\* the store of the consumer that did not run: self.previous_tickets is an
\* attribute of the ZendeskMonitor instance, previousTickets a variable of
\* the page's script, so a write to the one is no write to the other
OtherStore_shared(store, written) == written
OtherStore(store, written) == store

InitTwo ==
  /\ previous_tickets = EmptyDict
  /\ tickets = << >>
  /\ changes = EmptyChanges
  /\ batch = << >>
  /\ old_tickets = EmptyDict
  /\ calls = 0
  /\ DashboardIdle
  /\ DeltaInit
  /\ AggIdle
  /\ RunIdle
  /\ PageIdle
  /\ consumer = "both"

\* tickets are created, updated or leave the window
WindowChanges(b) ==
  /\ b # tickets
  /\ tickets' = b
  /\ UNCHANGED <<previous_tickets, changes, batch, old_tickets, calls>>
  /\ UNCHANGED delta_vars
  /\ UNCHANGED non_delta_vars

\* a cycle of the monitor: the window is fetched and diffed
MonitorCycle ==
  /\ LET r == detect_changes(previous_tickets, tickets)
     IN  /\ changes' = r.changes
         /\ previous_tickets' = r.previous_tickets
         /\ previousTickets' = OtherStore(previousTickets, DictKeys(r.previous_tickets))
  /\ batch' = tickets
  /\ old_tickets' = previous_tickets
  /\ calls' = 1
  /\ UNCHANGED tickets
  /\ UNCHANGED <<consumer, gone, oldPreviousTickets, polled, newTickets>>
  /\ UNCHANGED non_delta_vars

\* a cycle of the page: the window is fetched, detectNewTickets runs
PageCycle ==
  /\ LET r == detectNewTickets(previousTickets, tickets)
     IN  /\ newTickets' = r.newTickets
         /\ previousTickets' = r.previousTickets
  /\ previous_tickets' =
       OtherStore(previous_tickets, detect_changes(previous_tickets, tickets).previous_tickets)
  /\ oldPreviousTickets' = previousTickets
  /\ polled' = Some(tickets)
  /\ UNCHANGED <<tickets, changes, batch, old_tickets, calls>>
  /\ UNCHANGED <<consumer, gone>>
  /\ UNCHANGED non_delta_vars

NextTwo ==
  \/ \E b \in WindowBatches : WindowChanges(b)
  \/ MonitorCycle
  \/ PageCycle

SpecTwo == InitTwo /\ [][NextTwo]_vars

\* ------------------------------------------------------------------------
\* Properties of the Delta Detector (checked under Spec)
\* ------------------------------------------------------------------------
BatchIds(b) == {b[i].id : i \in DOMAIN b}
\* the record a batch holds for an id: its last occurrence
LastOf(b, id) ==
  b[CHOOSE i \in DOMAIN b :
      b[i].id = id /\ \A j \in DOMAIN b : b[j].id = id => j <= i]
EntriesFor(entries, id) == {i \in DOMAIN entries : entries[i].ticket.id = id}

\* C1: a second detect_changes call with the identical batch, directly after
\* the first, returns an empty Delta Record.
C1_Idempotent ==
  calls = 2 => changes = EmptyChanges

C1_Witness ==
  /\ calls = 2
  /\ Len(batch) = 2
  /\ batch[1].id = batch[2].id
  /\ batch[1].status # batch[2].status
  /\ changes = EmptyChanges

\* C2: with an empty snapshot, the diff reports every id of the batch in
\* new_tickets and reports no status change and no priority change.
C2_FirstCycle ==
  (calls >= 1 /\ old_tickets = EmptyDict) =>
    /\ {changes.new_tickets[i].id : i \in DOMAIN changes.new_tickets} = BatchIds(batch)
    /\ changes.status_changes = << >>
    /\ changes.priority_changes = << >>

C2_Witness ==
  /\ calls = 1
  /\ old_tickets = EmptyDict
  /\ BatchIds(batch) = TicketIds
  /\ Len(changes.new_tickets) = Cardinality(TicketIds)

\* C3: an id in both the prior snapshot and the batch is not reported new;
\* it has exactly one status-change entry iff its status differs (with the
\* old and the new status), exactly one priority-change entry iff its
\* priority differs, and none otherwise; the two are independent.
C3_ChangeEntries ==
  calls >= 1 =>
    \A id \in DictKeys(old_tickets) \cap BatchIds(batch) :
      LET prev == DictGet(old_tickets, id)
          cur == LastOf(batch, id)
          sc == EntriesFor(changes.status_changes, id)
          pc == EntriesFor(changes.priority_changes, id)
      IN  /\ \A i \in DOMAIN changes.new_tickets : changes.new_tickets[i].id # id
          /\ Cardinality(sc) = IF prev.status # cur.status THEN 1 ELSE 0
          /\ \A i \in sc :
                /\ changes.status_changes[i].old_status = prev.status
                /\ changes.status_changes[i].new_status = cur.status
          /\ Cardinality(pc) = IF prev.priority # cur.priority THEN 1 ELSE 0
          /\ \A i \in pc :
                /\ changes.priority_changes[i].old_priority = prev.priority
                /\ changes.priority_changes[i].new_priority = cur.priority

C3_Witness ==
  /\ calls = 1
  /\ \E id \in DictKeys(old_tickets) \cap BatchIds(batch) :
        /\ EntriesFor(changes.status_changes, id) # {}
        /\ EntriesFor(changes.priority_changes, id) # {}

\* C4: after a diff the snapshot is exactly the id-to-record mapping of the
\* batch: every id of the batch maps to its record, no other id remains.
C4_SnapshotReplaced ==
  calls >= 1 =>
    /\ DictKeys(previous_tickets) = BatchIds(batch)
    /\ \A id \in BatchIds(batch) : DictGet(previous_tickets, id) = LastOf(batch, id)
    /\ Len(previous_tickets) = Cardinality(BatchIds(batch))

C4_Witness ==
  /\ calls = 1
  /\ DictKeys(old_tickets) \ BatchIds(batch) # {}
  /\ BatchIds(batch) \ DictKeys(old_tickets) # {}
  /\ DictKeys(previous_tickets) = BatchIds(batch)

\* ------------------------------------------------------------------------
\* Properties of the SLA resolver and classification (checked under SpecSLA)
\* ------------------------------------------------------------------------
Evaluated == sla_pc \in {"served", "shown"}
Shown == sla_pc = "shown"
HasEvaluation == ticket.sla_metrics.kind = "object"
IsOpen == ticket.status \notin Terminal

\* the stream is present and carries an event of type apply_sla
CarriesApplySla(stream) ==
  stream.present /\ \E i \in DOMAIN stream.events : stream.events[i].type = "apply_sla"
\* ... one that has its 'sla' object
CarriesSlaPayload(stream) ==
  stream.present /\ \E i \in DOMAIN stream.events :
    stream.events[i].type = "apply_sla" /\ IsSome(stream.events[i].sla)

\* the classification the specification prescribes for an open ticket
ExpectedOpenLabel(m, age) ==
  LET remaining == m.target_seconds - age
  IN  IF m.breached \/ remaining <= 0 THEN "Breached"
      ELSE IF remaining * 4 <= m.target_seconds THEN "At Risk"
      ELSE "On Track"

\* C5: an open ticket with a resolved evaluation is breached if the breached
\* flag is set or remaining <= 0, else at_risk if remaining/target <= 0.25,
\* else on_track.
C5_OpenClassification ==
  (Shown /\ IsOpen /\ HasEvaluation /\ IsSome(ticket.created_at)) =>
    view.sla.label = ExpectedOpenLabel(ticket.sla_metrics, now - Val(ticket.created_at))

\* C6: a solved or closed ticket with a resolved evaluation is met when the
\* breached flag is false and breached when it is true, whatever its age,
\* target and fulfilled flag.
C6_TerminalClassification ==
  (Shown /\ ~IsOpen /\ HasEvaluation) =>
    view.sla.label = IF ticket.sla_metrics.breached THEN "Breached" ELSE "Met"

C6_Witness ==
  /\ Shown /\ ticket.status = "closed" /\ HasEvaluation
  /\ ticket.sla_metrics.breached /\ ticket.sla_metrics.fulfilled
  /\ ticket.sla_metrics.target_seconds = 0
  /\ now > 0
  /\ view.sla.label = "Breached"

\* C7 as stated: a resolution_time stream carrying any apply_sla event
\* decides the metric type; reply_time is returned only without one.
C7_Original ==
  Evaluated =>
    /\ CarriesApplySla(metric_data.resolution_time) =>
         (HasEvaluation /\ ticket.sla_metrics.metric_type = "resolution_time")
    /\ (HasEvaluation /\ ticket.sla_metrics.metric_type = "reply_time") =>
         (~CarriesApplySla(metric_data.resolution_time)
          /\ CarriesApplySla(metric_data.reply_time))

\* C7: whenever the resolution_time stream is present and carries an
\* apply_sla event that has an sla object, the evaluation has metric_type
\* resolution_time; it has metric_type reply_time only when the
\* resolution_time stream is absent or carries no such event and the
\* reply_time stream carries one.
C7_Precedence ==
  Evaluated =>
    /\ CarriesSlaPayload(metric_data.resolution_time) =>
         (HasEvaluation /\ ticket.sla_metrics.metric_type = "resolution_time")
    /\ (HasEvaluation /\ ticket.sla_metrics.metric_type = "reply_time") =>
         (~CarriesSlaPayload(metric_data.resolution_time)
          /\ CarriesSlaPayload(metric_data.reply_time))

C7_Witness ==
  /\ Evaluated
  /\ CarriesSlaPayload(metric_data.resolution_time)
  /\ CarriesSlaPayload(metric_data.reply_time)
  /\ ticket.sla_metrics.metric_type = "resolution_time"

\* C8: a ticket classified breached on a reply_time evaluation gets no
\* breach badge and does not increment the breached counter.
C8_ReplyBreachHidden ==
  (Shown /\ HasEvaluation /\ ticket.sla_metrics.metric_type = "reply_time"
         /\ view.sla.status = "breach") =>
    /\ ~(view.badge.shown /\ view.badge.class = "breach")
    /\ view.stats_sla.breached = 0

C8_Witness ==
  /\ Shown /\ IsOpen /\ HasEvaluation
  /\ ticket.sla_metrics.metric_type = "reply_time"
  /\ ~ticket.sla_metrics.breached
  /\ view.sla.status = "breach"
  /\ ~view.badge.shown

\* C9: a ticket classified breached on a resolution_time evaluation shows a
\* breach badge, open or solved/closed.
C9_ResolutionBreachVisible ==
  (Shown /\ HasEvaluation /\ ticket.sla_metrics.metric_type = "resolution_time"
         /\ view.sla.status = "breach") =>
    (view.badge.shown /\ view.badge.class = "breach")

C11_NonPositiveTarget ==
  (Shown /\ IsOpen /\ HasEvaluation /\ ticket.sla_metrics.target_seconds <= 0) =>
    view.sla.label = "Breached"

\* C12: an open ticket that has an evaluation but no created_at has SLA
\* status none.
C12_MissingCreatedAt ==
  (Shown /\ IsOpen /\ HasEvaluation /\ ~IsSome(ticket.created_at)) =>
    view.sla.status = "none"

\* ------------------------------------------------------------------------
\* Vanished ids and ordering (checked under Spec)
\* ------------------------------------------------------------------------
IdsOf(ts) == {ts[i].id : i \in DOMAIN ts}
\* the first position of an id in a batch
FirstPos(b, id) == CHOOSE i \in DOMAIN b : b[i].id = id /\ \A j \in DOMAIN b : b[j].id = id => i <= j

\* C13: an id that is in the prior snapshot but not in the batch gets no
\* entry in any Delta collection and leaves the snapshot; an id that was
\* dropped earlier and is in the batch again is reported as new, not as a
\* status or priority change. For the monitor and for the dashboard.
C13_VanishedIds ==
    IF consumer = "monitor"
      THEN calls >= 1 =>
           /\ \A id \in DictKeys(old_tickets) \ BatchIds(batch) :
                /\ id \notin IdsOf(changes.new_tickets)
                /\ EntriesFor(changes.status_changes, id) = {}
                /\ EntriesFor(changes.priority_changes, id) = {}
                /\ ~DictHas(previous_tickets, id)
           /\ \A id \in gone \cap BatchIds(batch) :
                /\ id \in IdsOf(changes.new_tickets)
                /\ EntriesFor(changes.status_changes, id) = {}
                /\ EntriesFor(changes.priority_changes, id) = {}
      ELSE IsSome(polled) =>
           /\ \A id \in oldPreviousTickets \ IdsOf(Val(polled)) :
                /\ id \notin IdsOf(newTickets)
                /\ id \notin previousTickets
           /\ \A id \in gone \cap IdsOf(Val(polled)) : id \in IdsOf(newTickets)

C13_WitnessDashboard ==
  /\ consumer = "dashboard"
  /\ IsSome(polled)
  /\ gone \cap IdsOf(Val(polled)) # {}
  /\ oldPreviousTickets \ IdsOf(Val(polled)) # {}
  /\ Len(newTickets) = 1

C13_Witness ==
  /\ calls = 1
  /\ consumer = "monitor"
  /\ gone \cap BatchIds(batch) # {}
  /\ DictKeys(old_tickets) \ BatchIds(batch) # {}
  /\ Len(changes.new_tickets) = 1

\* C14: in new_tickets, in status_changes and in priority_changes the
\* entries follow the order in which their tickets (ids) occur in the batch.
InBatchOrder(ids, b) ==
  \A i, j \in DOMAIN ids : i < j => FirstPos(b, ids[i]) < FirstPos(b, ids[j])

C14_Ordering ==
  (calls >= 1 /\ consumer = "monitor") =>
    /\ InBatchOrder([i \in DOMAIN changes.new_tickets |-> changes.new_tickets[i].id], batch)
    /\ InBatchOrder([i \in DOMAIN changes.status_changes |->
                       changes.status_changes[i].ticket.id], batch)
    /\ InBatchOrder([i \in DOMAIN changes.priority_changes |->
                       changes.priority_changes[i].ticket.id], batch)

C14_Witness ==
  /\ calls = 1
  /\ consumer = "monitor"
  /\ Len(changes.status_changes) = 2
  /\ Len(changes.priority_changes) = 2
  /\ batch[1].id = 2


\* ------------------------------------------------------------------------
\* Aggregate SLA buckets (checked under SpecSLA)
\* ------------------------------------------------------------------------
\* C15: a ticket is counted in breached / atRisk / onTrack only if its
\* evaluation has metric_type resolution_time and its status is not solved
\* or closed; a ticket with a reply_time evaluation, with no evaluation or
\* in a terminal status is counted in none of the three.
C15_SlaBuckets ==
  Shown =>
    LET counted == view.stats_sla.breached + view.stats_sla.atRisk + view.stats_sla.onTrack
        resolution == HasEvaluation /\ ticket.sla_metrics.metric_type = "resolution_time"
    IN  /\ counted > 0 => (resolution /\ IsOpen)
        /\ (~resolution \/ ~IsOpen) =>
             view.stats_sla = [breached |-> 0, atRisk |-> 0, onTrack |-> 0]

C15_Witness ==
  /\ Shown
  /\ IsOpen
  /\ ticket.sla_metrics.metric_type = "resolution_time"
  /\ view.stats_sla.atRisk = 1

\* a breached reply_time evaluation on an open ticket is counted nowhere
C15_WitnessReply ==
  /\ Shown
  /\ IsOpen
  /\ HasEvaluation
  /\ ticket.sla_metrics.metric_type = "reply_time"
  /\ view.sla.status = "breach"
  /\ view.stats_sla.breached = 0



\* ------------------------------------------------------------------------
\* Properties of the aggregators (checked under SpecAgg)
\* ------------------------------------------------------------------------
Aggregated == agg_pc = "done"

RECURSIVE SumOver(_, _)
SumOver(f, keys) ==
  IF keys = {} THEN 0
  ELSE LET k == CHOOSE x \in keys : TRUE
       IN  f[k] + SumOver(f, keys \ {k})
\* the sum of all values of a counter dict
SumAll(f) == SumOver(f, DOMAIN f)
\* the sum of the counters of the given keys, a missing counter being 0
SumKeys(f, keys) == SumOver(f, keys \cap DOMAIN f)

PriorityKeys == {"low", "normal", "high", "urgent", "none", None}

\* get_stats returned, total is the batch size and the status counters and
\* the priority counters each sum to total
MonitorPartition ==
  /\ ~agg.stats.raised
  /\ agg.stats.total = Len(agg_tickets)
  /\ SumKeys(agg.stats.counts, AggStatus) = agg.stats.total
  /\ SumKeys(agg.stats.counts, PriorityKeys) = agg.stats.total

\* calculateStats: as above, and the assignees' totals plus unassigned
PagePartition ==
  /\ agg.stats.total = Len(agg_tickets)
  /\ SumKeys(agg.stats.counts, AggStatus) = agg.stats.total
  /\ SumKeys(agg.stats.counts, PriorityKeys) = agg.stats.total
  /\ SumAll([a \in DOMAIN agg.stats.byAssignee |-> agg.stats.byAssignee[a].total])
       + agg.stats.unassigned = agg.stats.total

\* calculate_stats: by_status and by_priority each sum to total
WrapperPartition ==
  /\ agg.stats.total = Len(agg_tickets)
  /\ SumAll(agg.stats.by_status) = agg.stats.total
  /\ SumAll(agg.stats.by_priority) = agg.stats.total

\* C16: for every batch with status in {new, open, pending, hold, solved,
\* closed} and priority in {low, normal, high, urgent} or absent, the
\* aggregator returns a result whose total is the batch size and whose
\* per-status counts, per-priority counts and (where it counts assignees)
\* per-assignee totals plus unassigned each sum to total.
C16_Partition ==
  Aggregated =>
    CASE consumer = "monitor" -> MonitorPartition
      [] consumer = "dashboard" -> PagePartition
      [] consumer = "wrapper" -> WrapperPartition

\* the page's and the wrapper's aggregators do partition every batch
C16_PageAndWrapper ==
  (Aggregated /\ consumer # "monitor") => C16_Partition

\* C17: aggregating a batch of 0 tickets gives total 0, every counter 0 and
\* a resolution rate of 0; no aggregator fails on it.
C17_EmptyBatch ==
  (Aggregated /\ agg_tickets = << >>) =>
    /\ agg.stats.total = 0
    /\ agg.rate = 0
    /\ CASE consumer = "monitor" ->
              /\ ~agg.stats.raised
              /\ \A k \in DOMAIN agg.stats.counts : agg.stats.counts[k] = 0
              /\ DOMAIN agg.stats.by_requester = {}
              /\ DOMAIN agg.stats.by_type = {}
         [] consumer = "dashboard" ->
              /\ \A k \in DOMAIN agg.stats.counts : agg.stats.counts[k] = 0
              /\ DOMAIN agg.stats.byAssignee = {}
              /\ agg.stats.unassigned = 0
              /\ agg.stats.sla = [breached |-> 0, atRisk |-> 0, onTrack |-> 0]
         [] consumer = "wrapper" ->
              /\ DOMAIN agg.stats.by_status = {}
              /\ DOMAIN agg.stats.by_priority = {}
              /\ agg.stats.urgent_count = 0
              /\ agg.stats.open_count = 0
              /\ agg.stats.solved_count = 0

C17_Witness ==
  /\ Aggregated
  /\ consumer = "dashboard"
  /\ agg_tickets = << >>
  /\ agg.stats.total = 0
  /\ agg.rate = 0

\* a rate is derived from a non-empty batch too
C17_WitnessRate ==
  /\ Aggregated
  /\ consumer = "dashboard"
  /\ Len(agg_tickets) = 2
  /\ agg.rate = 50


\* ------------------------------------------------------------------------
\* Properties of the poll loop (checked under SpecRun and SpecRunFair)
\* ------------------------------------------------------------------------
AfterFetch == run_pc \in {"fetched", "diff", "display", "sleep", "crashed"}

\* in a cycle whose fetch failed: the failed request is the last one of the
\* cycle, nothing is aggregated or diffed, and once the cycle sleeps the
\* display was called exactly once, with an empty batch and the error
C18_FailedCycle ==
  (AfterFetch /\ Failed) =>
    /\ \A i \in DOMAIN pages : ~pages[i].ok => i = Len(pages)
    /\ run_pc \in {"fetched", "sleep"}
    /\ stats = Missing
    /\ calls = 0
    /\ previous_tickets = old_tickets
    /\ fetched.error \in FetchErrors
    /\ IF run_pc = "sleep"
         THEN presented = <<[tickets |-> << >>, error |-> fetched.error]>>
         ELSE presented = << >>

\* a successful cycle after a failed one: aggregated, diffed against the
\* snapshot and displayed once, with the batch and no error
C18_LaterSuccess ==
  (had_failure /\ run_pc = "sleep" /\ ~Failed) =>
    /\ IsSome(stats)
    /\ calls = 1
    /\ batch = ConcatPages(pages)
    /\ changes = detect_changes(old_tickets, batch).changes
    /\ presented = <<[tickets |-> batch, error |-> None]>>

\* C18: when a cycle's fetch fails it is not retried in that cycle, the
\* display is called once with an empty batch and the error, the loop
\* sleeps and starts the next cycle (unless it is stopped), and a later
\* successful fetch is processed normally.
C18_FailureRecovery ==
  /\ [](C18_FailedCycle /\ C18_LaterSuccess)
  /\ ((AfterFetch /\ Failed) ~>
        ((run_pc = "fetch" /\ pages = << >>) \/ run_pc = "stopped"))

C18_Witness ==
  /\ run_pc = "sleep"
  /\ had_failure
  /\ ~Failed
  /\ calls = 1
  /\ batch # << >>
  /\ previous_tickets # EmptyDict

\* C23: every poll cycle that starts its fetch eventually reaches its sleep
\* step (or the loop is stopped by the user).
C23_CycleCompletes ==
  (run_pc = "fetch") ~> (run_pc \in {"sleep", "stopped"})

\* the fetch itself returns when the data source ends the page chain within
\* MaxPages requests: each request answers or times out
C23_FetchReturns ==
  (run_pc = "fetch") ~> (run_pc # "fetch")

\* C27: a cycle whose fetch fails leaves previous_tickets as it was before
\* the cycle; so when the cycle after an outage fetches the tickets of the
\* last cycle before it, its Delta Record is empty, and whatever it fetches,
\* no ticket seen in that earlier cycle is reported as new.
C27_FailedCycleFrame ==
  /\ (run_pc \in {"fetched", "sleep", "stopped"} /\ Failed) =>
       previous_tickets = old_tickets
  /\ (run_pc \in {"display", "sleep"} /\ prev_failed /\ IsSome(last_seen)) =>
       /\ detect_changes(EmptyDict, batch).previous_tickets = Val(last_seen)
            => changes = EmptyChanges
       /\ \A i \in DOMAIN changes.new_tickets :
            changes.new_tickets[i].id \notin DictKeys(Val(last_seen))

\* success(B), failure, success(B) with a B that holds tickets
C27_Witness ==
  /\ run_pc = "sleep"
  /\ prev_failed
  /\ IsSome(last_seen)
  /\ batch # << >>
  /\ detect_changes(EmptyDict, batch).previous_tickets = Val(last_seen)
  /\ previous_tickets = old_tickets
  /\ changes = EmptyChanges

\* C19: fetch_recent_tickets returns either all pages' tickets concatenated
\* in page order and no error, or no batch and an error; after a failure the
\* tickets accumulated from the earlier pages are not returned, aggregated,
\* diffed or displayed.
C19_NoPartialBatch ==
  AfterFetch =>
    IF Failed
      THEN /\ fetched.tickets = Missing
           /\ fetched.error # None
           /\ stats = Missing
           /\ calls = 0
           /\ previous_tickets = old_tickets
           /\ \A i \in DOMAIN presented : presented[i].tickets = << >>
      ELSE /\ fetched.tickets = Some(ConcatPages(pages))
           /\ fetched.error = None
           /\ calls = 1 => batch = ConcatPages(pages)
           /\ \A i \in DOMAIN presented : presented[i].tickets = ConcatPages(pages)

C19_Witness ==
  /\ run_pc = "sleep"
  /\ Failed
  /\ Len(pages) >= 2
  /\ tickets # << >>
  /\ fetched.tickets = Missing

\* C20: whatever status in {new, open, pending, hold, solved, closed} and
\* priority (or none) the tickets have and however fetches fail, the loop
\* never ends because aggregating, diffing or displaying raised.
C20_NothingFatal == run_pc # "crashed"


\* C21: a stop signal takes effect only between cycles: when the loop has
\* stopped, the cycle that was in progress has run to completion, i.e. its
\* batch or its error was displayed and, for a fetched batch, the snapshot
\* was replaced.
C21_CooperativeStop ==
  run_pc = "stopped" =>
    /\ Len(presented) = 1
    /\ Failed \/ calls = 1


\* ------------------------------------------------------------------------
\* Flags, bucket counts and the course of the SLA status (checked under SpecSLA)
\* ------------------------------------------------------------------------
HasEvent(stream, type) == \E i \in DOMAIN stream.events : stream.events[i].type = type
\* the stream the returned evaluation was built from
ChosenStream == StreamOf(metric_data, ticket.sla_metrics.metric_type)

\* C25: in a returned evaluation fulfilled is true iff the chosen stream
\* contains a fulfill event and breached is true iff it contains a breach
\* event, independently of each other and of the events' order.
C25_Flags ==
  (Evaluated /\ HasEvaluation) =>
    /\ ticket.sla_metrics.fulfilled <=> HasEvent(ChosenStream, "fulfill")
    /\ ticket.sla_metrics.breached <=> HasEvent(ChosenStream, "breach")

\* the fulfilled flag alone does follow the fulfill events
C25_FulfilledOnly ==
  (Evaluated /\ HasEvaluation) =>
    (ticket.sla_metrics.fulfilled <=> HasEvent(ChosenStream, "fulfill"))

\* the tickets of the one-ticket batch that are eligible and have the status
EligibleWith(status) ==
  IF /\ IsOpen
     /\ HasEvaluation
     /\ ticket.sla_metrics.metric_type = "resolution_time"
     /\ view.sla.status = status
    THEN 1 ELSE 0
\* the tickets the card of the status lists
ListedBy(status) == IF CardFilter(ticket, now, status) THEN 1 ELSE 0

\* C26: the breached, atRisk and onTrack counters each equal the number of
\* eligible tickets (resolution_time evaluation, not solved or closed) whose
\* SLA status is breach, warning and ok, and so the number of tickets the
\* card's filter lists; an eligible ticket of status none is counted nowhere.
C26_CountsAgree ==
  Shown =>
    /\ view.stats_sla.breached = EligibleWith("breach")
    /\ view.stats_sla.atRisk = EligibleWith("warning")
    /\ view.stats_sla.onTrack = EligibleWith("ok")
    /\ view.stats_sla.breached = ListedBy("breach")
    /\ view.stats_sla.atRisk = ListedBy("warning")
    /\ view.stats_sla.onTrack = ListedBy("ok")

\* the breached and atRisk counters do agree with status and filter
C26_BreachedAtRisk ==
  Shown =>
    /\ view.stats_sla.breached = EligibleWith("breach")
    /\ view.stats_sla.atRisk = EligibleWith("warning")
    /\ view.stats_sla.breached = ListedBy("breach")
    /\ view.stats_sla.atRisk = ListedBy("warning")

StatusRank(status) ==
  CASE status = "ok" -> 1
    [] status = "warning" -> 2
    [] status = "breach" -> 3
    [] OTHER -> 0

\* C29: for an open ticket with an evaluation of positive target, the same
\* at every poll, the SLA status shown never moves back as the clock
\* advances: not from breach to warning or ok, not from warning to ok.
C29_Monotone ==
  (Shown /\ IsOpen /\ HasEvaluation /\ ticket.sla_metrics.target_seconds > 0
     /\ shown_before # "") =>
    StatusRank(shown_before) <= StatusRank(view.sla.status)

C29_Witness ==
  /\ Shown
  /\ IsOpen
  /\ HasEvaluation
  /\ ticket.sla_metrics.target_seconds > 0
  /\ shown_before = "warning"
  /\ view.sla.status = "breach"
  /\ ~ticket.sla_metrics.breached


\* ------------------------------------------------------------------------
\* Uniqueness of the Delta entries (checked under Spec)
\* ------------------------------------------------------------------------
\* no id occurs twice in the list of ids
NoRepeat(ids) == \A i, j \in DOMAIN ids : ids[i] = ids[j] => i = j
NewIds(ts) == [i \in DOMAIN ts |-> ts[i].id]
ChangeIds(entries) == [i \in DOMAIN entries |-> entries[i].ticket.id]

\* detect_changes: each id at most once per list, none both new and changed
C28_Monitor ==
  (consumer = "monitor" /\ calls >= 1) =>
    /\ NoRepeat(NewIds(changes.new_tickets))
    /\ NoRepeat(ChangeIds(changes.status_changes))
    /\ NoRepeat(ChangeIds(changes.priority_changes))
    /\ \A id \in IdsOf(changes.new_tickets) :
         /\ EntriesFor(changes.status_changes, id) = {}
         /\ EntriesFor(changes.priority_changes, id) = {}

\* C28: in every Delta Record each ticket id occurs at most once in
\* new_tickets, in status_changes and in priority_changes, and no id is both
\* new and changed, even when the batch repeats an id; for the monitor's
\* detect_changes and for the dashboard's detectNewTickets.
C28_UniqueEntries ==
  /\ C28_Monitor
  /\ (consumer = "dashboard" /\ IsSome(polled)) => NoRepeat(NewIds(newTickets))

\* ------------------------------------------------------------------------
\* Properties of the dashboard page (checked under SpecPage)
\* ------------------------------------------------------------------------
\* C22: at most one poll cycle of the page is in progress at any time, and
\* the batch on display is never one of a cycle that started before the
\* cycle displayed just before it.
C22_NoOverlap ==
  /\ Len(inflight) <= 1
  /\ IsSome(last_response) => ~(Val(last_response).ok /\ Val(last_response).stale)

\* the page's side of C27 (checked under SpecPage): a fetchData call whose
\* fetchTickets returned null leaves previousTickets, the batch on display
\* and the last list of new tickets as they were
C27_Dashboard ==
  [][(Len(inflight') < Len(inflight) /\ ~Val(last_response').ok) =>
       /\ previousTickets' = previousTickets
       /\ polled' = polled
       /\ newTickets' = newTickets]_vars

\* C30: at most one refresh timer is active, one is active only while
\* autoRefresh is enabled, and the refresh interval is never below 10 s.
C30_TimerInvariant ==
  /\ Cardinality(timers) <= 1
  /\ timers # {} => CONFIG.autoRefresh
  /\ timers = (IF IsSome(refreshTimer) THEN {Val(refreshTimer)} ELSE {})
  /\ CONFIG.refreshInterval >= 10 * 1000
\* the interval was changed while auto-refresh is paused, and no timer runs
C30_Witness ==
  /\ ~CONFIG.autoRefresh
  /\ CONFIG.refreshInterval # InitialConfig.refreshInterval
  /\ timers = {}

\* ------------------------------------------------------------------------
\* Properties of two consumers on one window (checked under SpecTwo)
\* ------------------------------------------------------------------------
\* the monitor's store and Delta Record are those of a monitor running
\* alone: the store is the snapshot of its own last batch, the record the
\* diff of that batch against its own store before
MonitorAsAlone ==
  calls >= 1 =>
    /\ previous_tickets = detect_changes(EmptyDict, batch).previous_tickets
    /\ changes = detect_changes(old_tickets, batch).changes
\* ... and so for the page
PageAsAlone ==
  IsSome(polled) =>
    /\ previousTickets = BatchIds(Val(polled))
    /\ newTickets = detectNewTickets(oldPreviousTickets, Val(polled)).newTickets

\* C24: under every interleaving of the cycles of a monitor and a page on
\* the same window, a diff by one leaves the other's snapshot as it was, a
\* consumer diffs against the snapshot its own last cycle left, and so its
\* Delta Records are those it computes when running alone.
C24_IndependentSnapshots ==
  /\ [](MonitorAsAlone /\ PageAsAlone)
  /\ [][/\ MonitorCycle => (previousTickets' = previousTickets
                            /\ old_tickets' = previous_tickets)
        /\ PageCycle => (previous_tickets' = previous_tickets
                         /\ oldPreviousTickets' = previousTickets)]_vars

\* the page polled, the window changed, the monitor polled: the stores differ
C24_Witness ==
  /\ calls = 1
  /\ IsSome(polled)
  /\ batch # Val(polled)
  /\ DictKeys(previous_tickets) # previousTickets
  /\ changes.new_tickets # << >>
  /\ newTickets # << >>

====
